---- MODULE Spec2Model ----
(***************************************************************************)
(* A model of ipo_monitor.py: the IPO record (IPOData), the calendar       *)
(* fetch (FinnhubClient.get_ipo_calendar), the filter                      *)
(* (filter_todays_large_ipos), the renderer (create_email_content), the    *)
(* dispatch (EmailNotifier.send_email) and the orchestration (main).       *)
(*                                                                         *)
(* Python values are represented as follows.                               *)
(*   Optional number  : [some |-> BOOLEAN, v |-> Int]; None is NoneNum.    *)
(*   Optional string  : a string; None is the marker Unset.                *)
(*   Prices are whole currency units, so price * shares is an integer.     *)
(*   A formatted value: [kind, n, s], kind naming the format that was      *)
(*   applied, n the number shown (in hundredths for two-decimal formats),  *)
(*   s the literal text when the value is a literal.                       *)
(***************************************************************************)
EXTENDS Integers, Sequences, FiniteSets, TLC

VARIABLES
    pc,               \* position of the run
    env,              \* os.environ, a function from the six keys to strings
    finnhub_api_key, email_sender, email_password,
    email_recipient, smtp_server, smtp_port,      \* main's locals, lines 338-343
    today,            \* get_today_date()
    response,         \* what the GET met, "" before the fetch
    raw_ipos,         \* the fetched raw records
    ipos,             \* the IPOData list
    qualifying_ipos,  \* the filter's result
    html_body, text_body, subject,
    raisedIn,         \* the call an uncaught exception came out of, "" if none
    success,          \* send_email's return value: "unset", "True", "False"
    exitCode,         \* the process exit status, -1 while running
    netLog            \* every network operation attempted, in order

vars == <<pc, env, finnhub_api_key, email_sender, email_password,
          email_recipient, smtp_server, smtp_port, today, response, raw_ipos,
          ipos, qualifying_ipos, html_body, text_body, subject, raisedIn, success,
          exitCode, netLog>>

-----------------------------------------------------------------------------
(* Bounds of the model *)

\* longest batch the calendar returns in a run of main
MaxRaw == 2
\* longest list handed to the filter or the renderer on their own
MaxLen == 2

-----------------------------------------------------------------------------
(* Python values *)

Unset == "<None>"
NoneNum == [some |-> FALSE, v |-> 0]
Some(x) == [some |-> TRUE, v |-> x]

\* bool(x) of an Optional number: None and 0 are false
TruthyNum(x) == x.some /\ x.v # 0
\* bool(s) of an Optional string: None and "" are false
TruthyStr(s) == s # Unset /\ s # ""

\* dict.get(key, default): the default only when the key is absent
GetOr(x, default) == IF x = Unset THEN default ELSE x

\* all sequences over S of length at most n
SeqUpTo(S, n) == UNION {[1..k -> S] : k \in 0..n}

-----------------------------------------------------------------------------
(* Constants of the program *)

OFFER_AMOUNT_THRESHOLD == 200000000

-----------------------------------------------------------------------------
(* IPOData *)

\* IPOData.from_finnhub, with the truthiness test the code makes
from_finnhub(data) ==
    LET price  == data.price
        shares == data.numberOfShares
        offer_amount == IF TruthyNum(price) /\ TruthyNum(shares)
                        THEN Some(price.v * shares.v)
                        ELSE NoneNum
    IN [symbol       |-> GetOr(data.symbol, "N/A"),
        name         |-> GetOr(data.name, "Unknown"),
        ipo_date     |-> GetOr(data.date, ""),
        price        |-> price,
        shares       |-> shares,
        offer_amount |-> offer_amount,
        exchange     |-> GetOr(data.exchange, "N/A")]

\* x / unit to two decimals, in hundredths (round to nearest; the model's
\* amounts never fall on a tie)
Hundredths(x, unit) == (x + unit \div 200) \div (unit \div 100)

\* IPOData.format_offer_amount
format_offer_amount(ipo) ==
    IF ~ipo.offer_amount.some
    THEN [kind |-> "lit", n |-> 0, s |-> "N/A"]
    ELSE IF ipo.offer_amount.v >= 1000000000
    THEN [kind |-> "$B", n |-> Hundredths(ipo.offer_amount.v, 1000000000), s |-> ""]
    ELSE IF ipo.offer_amount.v >= 1000000
    THEN [kind |-> "$M", n |-> Hundredths(ipo.offer_amount.v, 1000000), s |-> ""]
    ELSE [kind |-> "$,", n |-> ipo.offer_amount.v * 100, s |-> ""]

-----------------------------------------------------------------------------
(* filter_todays_large_ipos *)

\* the test of line 222 as a plausible slip would write it
KeepsMutant(ipo, target_date) ==
    /\ ipo.ipo_date = target_date
    /\ TruthyNum(ipo.offer_amount)
    /\ ipo.offer_amount.v >= OFFER_AMOUNT_THRESHOLD

\* the test of line 222 as another plausible slip would write it: an unknown
\* offer value is let through
KeepsUnknownOffer(ipo, target_date) ==
    /\ ipo.ipo_date = target_date
    /\ (~ipo.offer_amount.some \/ ipo.offer_amount.v > OFFER_AMOUNT_THRESHOLD)

\* the two tests of the loop body, lines 218 and 222
Keeps(ipo, target_date) ==
    /\ ~(ipo.ipo_date # target_date)
    /\ TruthyNum(ipo.offer_amount)
    /\ ipo.offer_amount.v > OFFER_AMOUNT_THRESHOLD

\* the loop of lines 214-229: append each kept record, in input order
RECURSIVE FilterLoop(_, _, _, _)
FilterLoop(list, target_date, i, acc) ==
    IF i > Len(list) THEN acc
    ELSE FilterLoop(list, target_date, i + 1,
                    IF Keeps(list[i], target_date)
                    THEN Append(acc, list[i]) ELSE acc)

filter_todays_large_ipos(list, target_date) ==
    FilterLoop(list, target_date, 1, <<>>)

-----------------------------------------------------------------------------
(* create_email_content *)

Str(x) == [kind |-> "str", n |-> 0, s |-> x]
Num(x) == [kind |-> "int", n |-> x, s |-> ""]
\* f"${x:.2f}" of a whole amount: the number in hundredths
Fixed2(x) == [kind |-> "$.2f", n |-> x * 100, s |-> ""]
\* f"{x:,}"
Grouped(x) == [kind |-> ",", n |-> x, s |-> ""]
TBD == [kind |-> "lit", n |-> 0, s |-> "TBD"]

\* one line of the plain body, "label: value" (a line without a value has
\* the whole text as its label)
Line(label, val) == [label |-> label, val |-> val]
TextOnly(text) == Line(text, Str(""))

NoneFoundText == "No IPOs with offer amount > $200M scheduled for today."
ThresholdText == "Threshold: Offer Amount > $200,000,000"
AutomatedText == "This is an automated report from your IPO Monitor."

\* lines 267-274: the block of one record
TextBlock(ipo) ==
    << Line("Ticker", Str(ipo.symbol)),
       Line("Company", Str(ipo.name)),
       Line("IPO Date", Str(ipo.ipo_date)),
       Line("Price", IF TruthyNum(ipo.price) THEN Fixed2(ipo.price.v) ELSE TBD),
       Line("Shares", IF TruthyNum(ipo.shares) THEN Grouped(ipo.shares.v) ELSE TBD),
       Line("Offer Amount", format_offer_amount(ipo)),
       Line("Exchange", Str(ipo.exchange)),
       TextOnly("------------------------------"),
       TextOnly("") >>

\* the loop of lines 266-274
RECURSIVE TextLoop(_, _, _)
TextLoop(list, i, acc) ==
    IF i > Len(list) THEN acc
    ELSE TextLoop(list, i + 1, acc \o TextBlock(list[i]))

\* the row of lines 279-293 as a plausible slip would write it: the cells in
\* another order than the header's
HtmlRowMutant(ipo) ==
    << Str(ipo.name),
       Str(ipo.symbol),
       [kind |-> "$.2f", n |-> ipo.price.v * 100, s |-> " if ipo.price else 'TBD'"],
       format_offer_amount(ipo),
       Str(ipo.exchange) >>

\* lines 279-293: the <tr> of one record, one entry per <td>. The price cell
\* is "${ipo.price:.2f} if ipo.price else 'TBD'" inside the f-string: only
\* {ipo.price:.2f} is a replacement field, the rest is text of the cell.
HtmlRow(ipo) ==
    << Str(ipo.symbol),
       Str(ipo.name),
       [kind |-> "$.2f", n |-> ipo.price.v * 100, s |-> " if ipo.price else 'TBD'"],
       format_offer_amount(ipo),
       Str(ipo.exchange) >>

\* format(None, ".2f") raises TypeError; a number formats
RowRaises(ipo) == ~ipo.price.some

\* the loop of lines 277-293
RECURSIVE RowsLoop(_, _, _)
RowsLoop(list, i, acc) ==
    IF i > Len(list) THEN acc
    ELSE RowsLoop(list, i + 1, Append(acc, HtmlRow(list[i])))

\* create_email_content: [raised, html, text]; raised when the f-string of a
\* row cannot format its price. html is the sequence of the body's elements,
\* text the sequence of the plain body's lines.
create_email_content(list, date) ==
    IF Len(list) = 0
    THEN [raised |-> FALSE,
          text |-> << Line("IPO Monitor Report", Str(date)),
                      TextOnly(""),
                      TextOnly(NoneFoundText) >>,
          html |-> << [tag |-> "h2", text |-> "IPO Monitor Report", val |-> Str(date),
                       cols |-> <<>>, rows |-> <<>>],
                      [tag |-> "p", text |-> NoneFoundText, val |-> Str(""),
                       cols |-> <<>>, rows |-> <<>>],
                      [tag |-> "hr", text |-> "", val |-> Str(""),
                       cols |-> <<>>, rows |-> <<>>],
                      [tag |-> "p", text |-> AutomatedText, val |-> Str(""),
                       cols |-> <<>>, rows |-> <<>>] >>]
    ELSE IF \E i \in 1..Len(list) : RowRaises(list[i])
    THEN [raised |-> TRUE, html |-> <<>>, text |-> <<>>]
    ELSE [raised |-> FALSE,
          text |-> TextLoop(list, 1,
                      << Line("IPO Monitor Report", Str(date)),
                         Line("Found IPO(s) with offer amount > $200M", Num(Len(list))),
                         TextOnly("=================================================="),
                         TextOnly("") >>),
          html |-> << [tag |-> "h2", text |-> "IPO Monitor Report", val |-> Str(date),
                       cols |-> <<>>, rows |-> <<>>],
                      [tag |-> "p", text |-> "Alert: Found IPO(s) with offer amount > $200M today!",
                       val |-> Num(Len(list)), cols |-> <<>>, rows |-> <<>>],
                      [tag |-> "table", text |-> "", val |-> Str(""),
                       cols |-> <<"Ticker", "Company", "Price", "Offer Amount", "Exchange">>,
                       rows |-> RowsLoop(list, 1, <<>>)],
                      [tag |-> "hr", text |-> "", val |-> Str(""),
                       cols |-> <<>>, rows |-> <<>>],
                      [tag |-> "p", text |-> AutomatedText, val |-> Str(""),
                       cols |-> <<>>, rows |-> <<>>],
                      [tag |-> "p", text |-> ThresholdText, val |-> Str(""),
                       cols |-> <<>>, rows |-> <<>>] >>]

-----------------------------------------------------------------------------
(* FinnhubClient.get_ipo_calendar *)

\* What the GET of line 128 can meet. "bad_json" is a 2xx body that is not
\* JSON, "not_object" a JSON body that is not an object, "no_key" an object
\* without ipoCalendar, "list" an object with the list under ipoCalendar.
FetchOutcomes ==
    {"timeout", "http_error", "transport", "bad_json", "not_object", "no_key", "list"}

\* the exceptions "except requests.RequestException" catches. Timeout,
\* ConnectionError and HTTPError (raise_for_status) are RequestExceptions;
\* what response.json() raises on a body that is not JSON is one only in
\* some versions of requests, so the build decides.
Caught(outcome, jsonErrorIsRequestException) ==
    \/ outcome \in {"timeout", "http_error", "transport"}
    \/ outcome = "bad_json" /\ jsonErrorIsRequestException

\* lines 127-134: [raised, value]
get_ipo_calendar(outcome, payload, jsonErrorIsRequestException) ==
    IF outcome = "list" THEN [raised |-> FALSE, value |-> payload]     \* line 131
    ELSE IF outcome = "no_key" THEN [raised |-> FALSE, value |-> <<>>] \* the default of line 131
    ELSE IF Caught(outcome, jsonErrorIsRequestException)
    THEN [raised |-> FALSE, value |-> <<>>]                            \* line 134
    ELSE [raised |-> TRUE, value |-> <<>>]    \* AttributeError of data.get, or the JSON error

-----------------------------------------------------------------------------
(* Inputs *)

Dates == {"2024-05-01", "2024-05-02"}

Keys == {"FINNHUB_API_KEY", "EMAIL_SENDER", "EMAIL_PASSWORD",
         "EMAIL_RECIPIENT", "SMTP_SERVER", "SMTP_PORT"}

Environ(key, sender, password, recipient, server, port) ==
    [k \in Keys |->
        CASE k = "FINNHUB_API_KEY" -> key
          [] k = "EMAIL_SENDER"    -> sender
          [] k = "EMAIL_PASSWORD"  -> password
          [] k = "EMAIL_RECIPIENT" -> recipient
          [] k = "SMTP_SERVER"     -> server
          [] k = "SMTP_PORT"       -> port]

\* the environments a run may start in: each key unset, and the required
\* ones also set to the empty string
Environments ==
    {Environ(key, sender, password, recipient, server, port) :
        key \in {Unset, "", "key"},
        sender \in {Unset, "", "me@example.com"},
        password \in {Unset, "", "secret"},
        recipient \in {Unset, "you@example.com"},
        server \in {Unset, "mail.example.com"},
        port \in {Unset, "2525", "abc"}}

\* a raw record of the provider: each key absent (Unset, NoneNum) or present
RawRecord(symbol, name, date, price, shares, exchange) ==
    [symbol |-> symbol, name |-> name, date |-> date, price |-> price,
     numberOfShares |-> shares, exchange |-> exchange]

\* the raw records of a run's batch: price and share count absent, zero,
\* giving exactly the threshold (20 * 10,000,000) and giving more
RunRaw ==
    {RawRecord("ABCD", "Acme Co", d, pn[1], pn[2], "NASDAQ") :
        d \in Dates,
        pn \in {<<NoneNum, Some(15000000)>>, <<Some(20), NoneNum>>,
                <<Some(0), Some(15000000)>>, <<Some(20), Some(0)>>,
                <<Some(20), Some(10000000)>>, <<Some(20), Some(15000000)>>}}

\* the raw records from_finnhub is applied to on its own
ParseRaw ==
    {RawRecord(s, c, d, p, n, x) :
        s \in {Unset, "ABCD"}, c \in {Unset, "Acme Co"}, d \in {Unset, "2024-05-01"},
        p \in {NoneNum, Some(0), Some(20)},
        n \in {NoneNum, Some(0), Some(15000000)},
        x \in {Unset, "NASDAQ"}}

\* the records the filter is applied to on its own
FilterRecords ==
    {[symbol |-> "ABCD", name |-> "Acme Co", ipo_date |-> d, price |-> NoneNum,
      shares |-> NoneNum, offer_amount |-> a, exchange |-> "NASDAQ"] :
        d \in Dates,
        a \in {NoneNum, Some(0), Some(199999999), Some(200000000),
               Some(200000001), Some(300000000)}}

\* the records the renderer is applied to on its own
RenderRecords ==
    {from_finnhub(RawRecord(s, "Acme Co", "2024-05-01", p, n, "NASDAQ")) :
        s \in {"ABCD", "WXYZ"},
        p \in {NoneNum, Some(0), Some(20), Some(100)},
        n \in {NoneNum, Some(0), Some(10000000), Some(15000000)}}

-----------------------------------------------------------------------------
(* main *)

\* os.environ.get(k) or default
EnvOr(e, k, default) == IF TruthyStr(e[k]) THEN e[k] ELSE default

\* int(s) of the port strings: [raised, value]
ParseInt(s) ==
    CASE s = "587"  -> [raised |-> FALSE, value |-> 587]
      [] s = "2525" -> [raised |-> FALSE, value |-> 2525]
      [] OTHER      -> [raised |-> TRUE, value |-> 0]

\* the test of lines 347-354 as a plausible slip would write it: the
\* credential is not checked
MissingVarsMutant(key, sender, password) ==
    (IF ~TruthyStr(key) THEN <<"FINNHUB_API_KEY">> ELSE <<>>)
    \o (IF ~TruthyStr(sender) THEN <<"EMAIL_SENDER">> ELSE <<>>)

\* lines 346-352: missing_vars
MissingVars(key, sender, password) ==
    (IF ~TruthyStr(key) THEN <<"FINNHUB_API_KEY">> ELSE <<>>)
    \o (IF ~TruthyStr(sender) THEN <<"EMAIL_SENDER">> ELSE <<>>)
    \o (IF ~TruthyStr(password) THEN <<"EMAIL_PASSWORD">> ELSE <<>>)

\* an uncaught exception: the interpreter prints the traceback and exits 1
Crash(where) ==
    /\ pc' = "crashed"
    /\ raisedIn' = where
    /\ exitCode' = 1

NetOp(op, host, port, to, ok) ==
    [op |-> op, host |-> host, port |-> port, to |-> to, ok |-> ok]

\* lines 338-343
LoadConfig ==
    /\ pc = "start"
    /\ finnhub_api_key' = EnvOr(env, "FINNHUB_API_KEY", Unset)
    /\ email_sender' = EnvOr(env, "EMAIL_SENDER", Unset)
    /\ email_password' = EnvOr(env, "EMAIL_PASSWORD", Unset)
    /\ email_recipient' = EnvOr(env, "EMAIL_RECIPIENT", email_sender')
    /\ smtp_server' = EnvOr(env, "SMTP_PORT", "smtp.gmail.com")
    /\ LET port == ParseInt(EnvOr(env, "SMTP_PORT", "587"))
       IN IF port.raised
          THEN /\ Crash("int")
               /\ UNCHANGED smtp_port
          ELSE /\ smtp_port' = port.value
               /\ pc' = "loaded"
               /\ UNCHANGED <<raisedIn, exitCode>>
    /\ UNCHANGED <<env, today, response, raw_ipos, ipos, qualifying_ipos, html_body,
                   text_body, subject, success, netLog>>

\* lines 345-357
Validate ==
    /\ pc = "loaded"
    /\ IF Len(MissingVars(finnhub_api_key, email_sender, email_password)) > 0
       THEN /\ pc' = "exited"
            /\ exitCode' = 1
       ELSE /\ pc' = "validated"
            /\ UNCHANGED exitCode
    /\ UNCHANGED <<env, finnhub_api_key, email_sender, email_password,
                   email_recipient, smtp_server, smtp_port, today, response, raw_ipos,
                   ipos, qualifying_ipos, html_body, text_body, subject,
                   raisedIn, success, netLog>>

\* lines 359-370: today, the clients, the fetch
Fetch ==
    /\ pc = "validated"
    /\ \E date \in Dates, outcome \in FetchOutcomes,
          payload \in SeqUpTo(RunRaw, MaxRaw), jsonErr \in BOOLEAN :
        /\ outcome # "list" => payload = <<>>
        /\ outcome # "bad_json" => jsonErr = FALSE
        /\ today' = date
        /\ response' = outcome
        /\ netLog' = Append(netLog,
                        NetOp("GET", "finnhub.io", 443, "",
                              outcome \in {"bad_json", "not_object", "no_key", "list"}))
        /\ LET got == get_ipo_calendar(outcome, payload, jsonErr)
           IN IF got.raised
              THEN /\ Crash("get_ipo_calendar")
                   /\ UNCHANGED raw_ipos
              ELSE /\ raw_ipos' = got.value
                   /\ pc' = "fetched"
                   /\ UNCHANGED <<raisedIn, exitCode>>
    /\ UNCHANGED <<env, finnhub_api_key, email_sender, email_password,
                   email_recipient, smtp_server, smtp_port, ipos,
                   qualifying_ipos, html_body, text_body, subject, success>>

\* lines 372-376
ParseAndFilter ==
    /\ pc = "fetched"
    /\ ipos' = [i \in 1..Len(raw_ipos) |-> from_finnhub(raw_ipos[i])]
    /\ qualifying_ipos' = filter_todays_large_ipos(ipos', today)
    /\ pc' = "filtered"
    /\ UNCHANGED <<env, finnhub_api_key, email_sender, email_password,
                   email_recipient, smtp_server, smtp_port, today, response, raw_ipos,
                   html_body, text_body, subject, raisedIn, success, exitCode,
                   netLog>>

\* lines 378-384
Render ==
    /\ pc = "filtered"
    /\ LET body == create_email_content(qualifying_ipos, today)
       IN IF body.raised
          THEN /\ Crash("create_email_content")
               /\ UNCHANGED <<html_body, text_body, subject>>
          ELSE /\ html_body' = body.html
               /\ text_body' = body.text
               /\ subject' = IF Len(qualifying_ipos) > 0
                             THEN [kind |-> "alert", n |-> Len(qualifying_ipos), s |-> today]
                             ELSE [kind |-> "report", n |-> 0, s |-> today]
               /\ pc' = "rendered"
               /\ UNCHANGED <<raisedIn, exitCode>>
    /\ UNCHANGED <<env, finnhub_api_key, email_sender, email_password,
                   email_recipient, smtp_server, smtp_port, today, response, raw_ipos,
                   ipos, qualifying_ipos, success, netLog>>

-----------------------------------------------------------------------------
(* EmailNotifier.send_email, one action per call on the SMTP session *)

\* where a failed step leads, as a plausible slip would write it: a refused
\* login is swallowed and the message is sent anyway
SmtpAfterMutant(step, ok) ==
    CASE step = "connect"  -> IF ok THEN "connected" ELSE "send_returned"
      [] step = "starttls" -> IF ok THEN "tls" ELSE "exit_failed"
      [] step = "login"    -> "authed"
      [] step = "sendmail" -> IF ok THEN "exit_ok" ELSE "exit_failed"

\* lines 183-186: where the run stands after a step of the with block. A
\* step that raises leaves the block (through SMTP.__exit__ once the session
\* exists); the constructor raising leaves send_email through the handler.
SmtpAfter(step, ok) ==
    CASE step = "connect"  -> IF ok THEN "connected" ELSE "send_returned"
      [] step = "starttls" -> IF ok THEN "tls" ELSE "exit_failed"
      [] step = "login"    -> IF ok THEN "authed" ELSE "exit_failed"
      [] step = "sendmail" -> IF ok THEN "exit_ok" ELSE "exit_failed"

\* one call on the session, lines 183-186: it succeeds or raises
SmtpStep(step, to) ==
    /\ \E ok \in BOOLEAN :
        /\ netLog' = Append(netLog, NetOp(step, smtp_server, smtp_port, to, ok))
        /\ pc' = SmtpAfter(step, ok)
        /\ success' = IF pc' = "send_returned" THEN "False" ELSE success  \* line 193
    /\ UNCHANGED <<env, finnhub_api_key, email_sender, email_password,
                   email_recipient, smtp_server, smtp_port, today, response, raw_ipos,
                   ipos, qualifying_ipos, html_body, text_body, subject,
                   raisedIn, exitCode>>

\* lines 172-183: the message is composed, smtplib.SMTP(server, port) connects
SmtpConnect ==
    /\ pc = "rendered"
    /\ SmtpStep("connect", "")

\* line 184
SmtpStartTLS ==
    /\ pc = "connected"
    /\ SmtpStep("starttls", "")

\* line 185
SmtpLogin ==
    /\ pc = "tls"
    /\ SmtpStep("login", "")

\* line 186
SmtpSendmail ==
    /\ pc = "authed"
    /\ SmtpStep("sendmail", email_recipient)

\* the end of the with block of line 183: SMTP.__exit__ sends QUIT and closes
\* the session; a QUIT that is refused raises. Then line 189 or line 193.
SmtpExit ==
    /\ pc \in {"exit_ok", "exit_failed"}
    /\ \E ok \in BOOLEAN :
        /\ netLog' = Append(netLog, NetOp("quit", smtp_server, smtp_port, "", ok))
        /\ success' = IF pc = "exit_ok" /\ ok THEN "True" ELSE "False"
    /\ pc' = "send_returned"
    /\ UNCHANGED <<env, finnhub_api_key, email_sender, email_password,
                   email_recipient, smtp_server, smtp_port, today, response, raw_ipos,
                   ipos, qualifying_ipos, html_body, text_body, subject,
                   raisedIn, exitCode>>

\* lines 393-397
Exit ==
    /\ pc = "send_returned"
    /\ exitCode' = IF success = "True" THEN 0 ELSE 1
    /\ pc' = "exited"
    /\ UNCHANGED <<env, finnhub_api_key, email_sender, email_password,
                   email_recipient, smtp_server, smtp_port, today, response, raw_ipos,
                   ipos, qualifying_ipos, html_body, text_body, subject,
                   raisedIn, success, netLog>>

-----------------------------------------------------------------------------
(* The run of main *)

\* the variables main has not assigned yet
Blank ==
    /\ finnhub_api_key = Unset /\ email_sender = Unset /\ email_password = Unset
    /\ email_recipient = Unset /\ smtp_server = Unset /\ smtp_port = 0
    /\ html_body = <<>> /\ text_body = <<>>
    /\ subject = [kind |-> "", n |-> 0, s |-> ""]
    /\ response = ""
    /\ raisedIn = "" /\ success = "unset" /\ exitCode = -1 /\ netLog = <<>>

Init ==
    /\ pc = "start"
    /\ env \in Environments
    /\ today = "" /\ raw_ipos = <<>> /\ ipos = <<>> /\ qualifying_ipos = <<>>
    /\ Blank

Next ==
    \/ LoadConfig
    \/ Validate
    \/ Fetch
    \/ ParseAndFilter
    \/ Render
    \/ SmtpConnect
    \/ SmtpStartTLS
    \/ SmtpLogin
    \/ SmtpSendmail
    \/ SmtpExit
    \/ Exit

Spec == Init /\ [][Next]_vars

-----------------------------------------------------------------------------
(* from_finnhub, filter_todays_large_ipos and create_email_content on their
   own: the input is drawn by the initial state, the action makes the call *)

NoEnviron == Environ(Unset, Unset, Unset, Unset, Unset, Unset)

InitParse ==
    /\ pc = "parse_input"
    /\ env = NoEnviron
    /\ today = ""
    /\ raw_ipos \in {<<d>> : d \in ParseRaw}
    /\ ipos = <<>> /\ qualifying_ipos = <<>>
    /\ Blank

CallFromFinnhub ==
    /\ pc = "parse_input"
    /\ ipos' = <<from_finnhub(raw_ipos[1])>>
    /\ pc' = "parse_done"
    /\ UNCHANGED <<env, finnhub_api_key, email_sender, email_password,
                   email_recipient, smtp_server, smtp_port, today, response, raw_ipos,
                   qualifying_ipos, html_body, text_body, subject, raisedIn,
                   success, exitCode, netLog>>

SpecParse == InitParse /\ [][CallFromFinnhub]_vars

InitFilter ==
    /\ pc = "filter_input"
    /\ env = NoEnviron
    /\ today \in Dates
    /\ raw_ipos = <<>>
    /\ ipos \in SeqUpTo(FilterRecords, MaxLen)
    /\ qualifying_ipos = <<>>
    /\ Blank

CallFilter ==
    /\ pc = "filter_input"
    /\ qualifying_ipos' = filter_todays_large_ipos(ipos, today)
    /\ pc' = "filter_done"
    /\ UNCHANGED <<env, finnhub_api_key, email_sender, email_password,
                   email_recipient, smtp_server, smtp_port, today, response, raw_ipos,
                   ipos, html_body, text_body, subject, raisedIn, success,
                   exitCode, netLog>>

SpecFilter == InitFilter /\ [][CallFilter]_vars

InitRender ==
    /\ pc = "render_input"
    /\ env = NoEnviron
    /\ today = "2024-05-01"
    /\ raw_ipos = <<>>
    /\ ipos \in SeqUpTo(RenderRecords, MaxLen)
    /\ qualifying_ipos = <<>>
    /\ Blank

CallRender ==
    /\ pc = "render_input"
    /\ LET body == create_email_content(ipos, today)
       IN /\ html_body' = body.html
          /\ text_body' = body.text
          /\ raisedIn' = IF body.raised THEN "create_email_content" ELSE ""
    /\ pc' = "render_done"
    /\ UNCHANGED <<env, finnhub_api_key, email_sender, email_password,
                   email_recipient, smtp_server, smtp_port, today, response, raw_ipos,
                   ipos, qualifying_ipos, subject, success, exitCode, netLog>>

SpecRender == InitRender /\ [][CallRender]_vars

-----------------------------------------------------------------------------
(* Properties *)

RequiredKeys == {"FINNHUB_API_KEY", "EMAIL_SENDER", "EMAIL_PASSWORD"}
MissingRequired == \E k \in RequiredKeys : env[k] \in {Unset, ""}
Ended == pc \in {"exited", "crashed"}
SendReturned == pc \in {"send_returned", "exited"} /\ success # "unset"
Ops(log) == [i \in 1..Len(log) |-> log[i].op]
IsSmtp(e) == e.op # "GET"
IsPath(e) == e.op \notin {"GET", "quit"}
IsQuit(e) == e.op = "quit"
IsSendmail(e) == e.op = "sendmail"

\* C1: when a required setting (API key, sender, credential) is unset or
\* empty, the run never gets past the validation, no network operation is
\* ever attempted, and the run ends with exit code 1.
C1_MissingConfigExitsBeforeNetwork ==
    MissingRequired =>
        /\ netLog = <<>>
        /\ pc \in {"start", "loaded", "exited", "crashed"}
        /\ Ended => exitCode = 1
        /\ ~Ended => exitCode = -1

\* C1 witness: a run with the credential set to the empty string has ended
\* at the validation with exit code 1.
C1_Witness ==
    /\ env["EMAIL_PASSWORD"] = "" /\ env["FINNHUB_API_KEY"] = "key"
    /\ env["EMAIL_SENDER"] = "me@example.com"
    /\ pc = "exited" /\ exitCode = 1

\* the port setting, when given, is a number
WellFormedPort == ~ParseInt(EnvOr(env, "SMTP_PORT", "587")).raised

\* C2 as claimed: with the required settings complete (and a port that is a
\* number), a run that has ended has exit code 0 exactly when send_email
\* returned True and exit code 1 exactly when send_email returned False.
C2_ExitCodeIffDispatch ==
    (~MissingRequired /\ WellFormedPort /\ Ended) =>
        /\ exitCode = 0 <=> (SendReturned /\ success = "True")
        /\ exitCode = 1 <=> (SendReturned /\ success = "False")

\* C3 as claimed: get_ipo_calendar never raises to main, whatever the fetch
\* met, and a fetch error leaves main with the empty list.
C3_FetchNeverRaises ==
    /\ raisedIn # "get_ipo_calendar"
    /\ \A i \in 1..Len(netLog) :
        (netLog[i].op = "GET" /\ ~netLog[i].ok /\ pc # "crashed") => raw_ipos = <<>>

\* the records the filter is to select, stated on the record's fields
C4_Selected(r) ==
    /\ r.ipo_date = today
    /\ r.offer_amount.some
    /\ r.offer_amount.v > 200000000

\* C4: the filter returns exactly the records of its input, in input order,
\* whose date is the target date and whose offer value is present and
\* strictly above 200,000,000; a record at exactly 200,000,000 or without an
\* offer value is never in the result.
C4_FilterIsExactSubsequence ==
    pc = "filter_done" =>
        /\ qualifying_ipos = SelectSeq(ipos, C4_Selected)
        /\ \A i \in 1..Len(qualifying_ipos) :
            /\ qualifying_ipos[i].offer_amount # Some(200000000)
            /\ qualifying_ipos[i].offer_amount # NoneNum

\* C4 witness: the filter has dropped a record at exactly the threshold and
\* kept a later record above it.
C4_Witness ==
    /\ pc = "filter_done"
    /\ Len(ipos) = 2 /\ Len(qualifying_ipos) = 1
    /\ ipos[1].ipo_date = today /\ ipos[1].offer_amount = Some(200000000)
    /\ qualifying_ipos[1] = ipos[2]

\* C5 as claimed: the offer value is price * shares whenever both keys are
\* present (zero included), and absent whenever one is missing.
C5_OfferValueIsProduct ==
    pc = "parse_done" =>
        LET d == raw_ipos[1]
            r == ipos[1]
        IN /\ (d.price.some /\ d.numberOfShares.some)
                => r.offer_amount = Some(d.price.v * d.numberOfShares.v)
           /\ ~(d.price.some /\ d.numberOfShares.some)
                => r.offer_amount = NoneNum

\* the steps of the transmit path, in the order of lines 183-186
C6_PathOrder == <<"connect", "starttls", "login", "sendmail">>

\* C6: the SMTP operations attempted so far are a prefix of connect,
\* STARTTLS, login, sendmail, each at most once and each only after the
\* earlier ones succeeded; the disconnect comes last, once, and only on a
\* session that was opened; the message goes out at most once, to the one
\* configured recipient; send_email never raises, returns False whenever a
\* step failed, and True only after all five steps succeeded.
C6_SingleOrderedAttempt ==
    LET smtp == SelectSeq(netLog, IsSmtp)
        path == SelectSeq(netLog, IsPath)
        quits == SelectSeq(netLog, IsQuit)
        sent == SelectSeq(netLog, IsSendmail)
    IN /\ Len(path) <= 4
       /\ \A i \in 1..Len(path) : path[i].op = C6_PathOrder[i]
       /\ \A i \in 1..Len(path) : i < Len(path) => path[i].ok
       /\ Len(quits) <= 1
       /\ Len(quits) = 1 =>
            /\ smtp[Len(smtp)].op = "quit"
            /\ path[1].ok
            /\ ~path[Len(path)].ok \/ Len(path) = 4
       /\ Len(sent) <= 1
       /\ \A i \in 1..Len(sent) : sent[i].to = email_recipient /\ sent[i].to # Unset
       /\ raisedIn # "send_email"
       /\ SendReturned =>
            /\ (\E i \in 1..Len(smtp) : ~smtp[i].ok) => success = "False"
            /\ success = "True" =>
                 Ops(smtp) = <<"connect", "starttls", "login", "sendmail", "quit">>
            /\ path[1].ok => Len(quits) = 1

\* C6 witness: send_email has returned False after a refused login, with the
\* session closed and nothing transmitted.
C6_Witness ==
    /\ SendReturned /\ success = "False"
    /\ Ops(SelectSeq(netLog, IsSmtp)) = <<"connect", "starttls", "login", "quit">>

\* C7 as claimed: the session is opened to the configured relay host, or to
\* smtp.gmail.com when none is configured, and to the configured port, or to
\* 587 when none is configured.
C7_ConnectsToConfiguredRelay ==
    \A i \in 1..Len(netLog) :
        netLog[i].op = "connect" =>
            /\ netLog[i].host = EnvOr(env, "SMTP_SERVER", "smtp.gmail.com")
            /\ netLog[i].port = ParseInt(EnvOr(env, "SMTP_PORT", "587")).value

\* the lines of the plain body that belong to record i of a non-empty list
C8_Block(i) == SubSeq(text_body, 4 + 9 * (i - 1) + 1, 4 + 9 * (i - 1) + 7)

\* C8 as claimed: for a non-empty list, records with absent price or share
\* count included, the call returns both bodies, and the plain body holds for
\* each record its block of seven fields, an absent price and an absent share
\* count shown as TBD.
C8_RendersEveryRecord ==
    (pc = "render_done" /\ Len(ipos) > 0) =>
        /\ raisedIn = ""
        /\ Len(text_body) = 4 + 9 * Len(ipos)
        /\ \A i \in 1..Len(ipos) :
            LET b == C8_Block(i)
            IN /\ [k \in 1..7 |-> b[k].label] =
                    <<"Ticker", "Company", "IPO Date", "Price", "Shares",
                      "Offer Amount", "Exchange">>
               /\ b[1].val.s = ipos[i].symbol
               /\ b[2].val.s = ipos[i].name
               /\ b[3].val.s = ipos[i].ipo_date
               /\ ~ipos[i].price.some => b[4].val = TBD
               /\ ~ipos[i].shares.some => b[5].val = TBD
               /\ b[6].val = format_offer_amount(ipos[i])
               /\ b[7].val.s = ipos[i].exchange

\* a list of qualifying records: every offer value present and above the
\* threshold
Qualifying(list) ==
    \A i \in 1..Len(list) :
        list[i].offer_amount.some /\ list[i].offer_amount.v > OFFER_AMOUNT_THRESHOLD

IsTable(e) == e.tag = "table"
Labels(lines) == {lines[k].label : k \in 1..Len(lines)}
Texts(elements) == {elements[k].text : k \in 1..Len(elements)}
Range(f) == {f[k] : k \in 1..Len(f)}

\* C9 as claimed: for a non-empty list of qualifying records the rich body
\* has one table row per record and each row carries the same set of fields
\* as the record's block of the plain body.
C9_RowsCarryBlockFields ==
    (pc = "render_done" /\ Len(ipos) > 0 /\ Qualifying(ipos)) =>
        /\ raisedIn = ""
        /\ LET tables == SelectSeq(html_body, IsTable)
           IN /\ Len(tables) = 1
              /\ Len(tables[1].rows) = Len(ipos)
              /\ \A i \in 1..Len(ipos) :
                    /\ Len(tables[1].rows[i]) = Len(tables[1].cols)
                    /\ Range(tables[1].cols) = Labels(C8_Block(i))

\* C9 amended: for a non-empty list of qualifying records the rich body has
\* one table with one row per record, in input order; each row carries five
\* of the seven fields of the record's plain block (ticker, company, price,
\* formatted offer value, exchange) and neither the date nor the share
\* count; the rich body states the count and the threshold. For the empty
\* list neither body has a table or a per-record listing and both state that
\* none were found.
C9_RowsCarryFiveFields ==
    /\ (pc = "render_done" /\ Len(ipos) > 0 /\ Qualifying(ipos)) =>
        /\ raisedIn = ""
        /\ LET tables == SelectSeq(html_body, IsTable)
           IN /\ Len(tables) = 1
              /\ tables[1].cols = <<"Ticker", "Company", "Price", "Offer Amount", "Exchange">>
              /\ Len(tables[1].rows) = Len(ipos)
              /\ \A i \in 1..Len(ipos) :
                    LET row == tables[1].rows[i]
                        b == C8_Block(i)
                    IN /\ Len(row) = 5
                       /\ row[1].s = ipos[i].symbol /\ row[1] = b[1].val
                       /\ row[2].s = ipos[i].name /\ row[2] = b[2].val
                       /\ row[3].kind = "$.2f" /\ row[3].n = ipos[i].price.v * 100
                       /\ row[3].n = b[4].val.n
                       /\ row[4] = format_offer_amount(ipos[i]) /\ row[4] = b[6].val
                       /\ row[5].s = ipos[i].exchange /\ row[5] = b[7].val
                       /\ Labels(b) \ Range(tables[1].cols) = {"IPO Date", "Shares"}
        /\ \E k \in 1..Len(html_body) :
              html_body[k].tag = "p" /\ html_body[k].val = Num(Len(ipos))
        /\ ThresholdText \in Texts(html_body)
    /\ (pc = "render_done" /\ Len(ipos) = 0) =>
        /\ raisedIn = ""
        /\ SelectSeq(html_body, IsTable) = <<>>
        /\ \A k \in 1..Len(html_body) : html_body[k].rows = <<>>
        /\ "Ticker" \notin Labels(text_body)
        /\ NoneFoundText \in Texts(html_body)
        /\ NoneFoundText \in Labels(text_body)

\* C9 witness: two different qualifying records have been rendered into a
\* table of two rows.
C9_Witness ==
    /\ pc = "render_done" /\ raisedIn = ""
    /\ Len(ipos) = 2 /\ Qualifying(ipos)
    /\ ipos[1].symbol # ipos[2].symbol
    /\ \E k \in 1..Len(html_body) :
          html_body[k].tag = "table" /\ Len(html_body[k].rows) = 2

\* C10: in a run of main every record handed to the renderer was built by
\* from_finnhub from a fetched record and passed the filter: its date is
\* today, its offer value is present and above 200,000,000, its price and
\* share count are present and non-zero. So the renderer never fails in a
\* run and its plain body never shows TBD.
C10_RenderedRecordsAreComplete ==
    /\ \A i \in 1..Len(qualifying_ipos) :
          LET r == qualifying_ipos[i]
          IN /\ \E j \in 1..Len(raw_ipos) : r = from_finnhub(raw_ipos[j])
             /\ r.ipo_date = today
             /\ r.offer_amount.some /\ r.offer_amount.v > 200000000
             /\ r.price.some /\ r.price.v # 0
             /\ r.shares.some /\ r.shares.v # 0
    /\ raisedIn # "create_email_content"
    /\ \A k \in 1..Len(text_body) : text_body[k].val # TBD
    /\ (pc \in {"rendered", "connected", "tls", "authed", "exit_ok", "exit_failed"}
          \/ SendReturned)
          => Len(text_body) = IF Len(qualifying_ipos) = 0 THEN 3
                              ELSE 4 + 9 * Len(qualifying_ipos)

\* C10 witness: of two fetched records dated today, the one without a price
\* was filtered out and the other one was rendered.
C10_Witness ==
    /\ pc = "rendered"
    /\ Len(raw_ipos) = 2 /\ Len(qualifying_ipos) = 1
    /\ raw_ipos[1].date = today /\ ~raw_ipos[1].price.some
    /\ qualifying_ipos[1] = from_finnhub(raw_ipos[2])

====
